---------------------------- MODULE Spec2Model ----------------------------
(***************************************************************************)
(* Model of pylsp_jsonrpc/streams.py: JsonRpcStreamReader (listen,         *)
(* _read_message, _content_length, close) and JsonRpcStreamWriter (write,  *)
(* close).                                                                 *)
(*                                                                         *)
(* A byte is a string naming it: an ASCII byte is its one-character        *)
(* string, the two bytes of the UTF-8 encoding of U+00E9 are "0xC3" and    *)
(* "0xA9".  A bytes object is a sequence of bytes; a str is a sequence of  *)
(* characters, an ASCII character being its one-character string and       *)
(* U+00E9 the string "U+00E9".                                             *)
(*                                                                         *)
(* A JSON value is a record with one field that names its type:            *)
(*   [int |-> n], [lit |-> "null"], [str |-> characters],                  *)
(*   [arr |-> sequence of values], [obj |-> sequence of <<key, value>>].   *)
(* [pyobj |-> "set"] is a Python object the codec cannot serialize.        *)
(***************************************************************************)
EXTENDS Integers, Sequences, FiniteSets, TLC

\* streams.py:113  b"Content-Length: " (also the literal of lines 72-73)
CONTENT_LENGTH ==
    <<"C", "o", "n", "t", "e", "n", "t", "-", "L", "e", "n", "g", "t", "h",
    ":", " ">>

\* streams.py:114  b"Content-Type: application/vscode-jsonrpc; charset=utf8"
CONTENT_TYPE ==
    <<"C", "o", "n", "t", "e", "n", "t", "-", "T", "y", "p", "e", ":", " ",
    "a", "p", "p", "l", "i", "c", "a", "t", "i", "o", "n", "/", "v", "s", "c",
    "o", "d", "e", "-", "j", "s", "o", "n", "r", "p", "c", ";", " ", "c", "h",
    "a", "r", "s", "e", "t", "=", "u", "t", "f", "8">>

\* streams.py:113-114  b"\r\n"
CRLF ==
    <<"\r", "\n">>

(***************************************************************************)
(* Bytes and text: the operations of Python's bytes, str and int that the  *)
(* code calls.                                                             *)
(***************************************************************************)

\* The decimal digits, digit d at index d + 1.
Digits ==
    <<"0", "1", "2", "3", "4", "5", "6", "7", "8", "9">>

DigitSet ==
    {Digits[k] : k \in 1..Len(Digits)}

DigitValue(c) ==
    (CHOOSE k \in 1..Len(Digits) : Digits[k] = c) - 1

\* bytes.strip() and the JSON grammar: ASCII whitespace.
Whitespace ==
    {" ", "\t", "\n", "\r"}

\* b"%(length)i" % n, and str(n): the decimal digits of a natural number.
RECURSIVE Decimal(_)
Decimal(n) ==
    IF n < 10 THEN <<Digits[n + 1]>>
    ELSE Decimal(n \div 10) \o <<Digits[(n % 10) + 1]>>

RECURSIVE DigitsValue(_)
DigitsValue(ds) ==
    IF ds = <<>> THEN 0
    ELSE 10 * DigitsValue(SubSeq(ds, 1, Len(ds) - 1)) + DigitValue(ds[Len(ds)])

\* int(value) of a stripped bytes object: an optional sign and decimal
\* digits, or ValueError.
ParseInt(value) ==
    LET signed == value # <<>> /\ value[1] \in {"-", "+"}
        ds     == IF signed THEN Tail(value) ELSE value
    IN  IF ds # <<>> /\ \A k \in 1..Len(ds) : ds[k] \in DigitSet
        THEN [ok |-> TRUE,
              val |-> IF signed /\ value[1] = "-" THEN 0 - DigitsValue(ds)
                      ELSE DigitsValue(ds)]
        ELSE [ok |-> FALSE, val |-> 0]

\* bytes.strip(): drop leading and trailing ASCII whitespace.
RECURSIVE LStrip(_)
LStrip(b) ==
    IF b # <<>> /\ b[1] \in Whitespace THEN LStrip(Tail(b)) ELSE b

RECURSIVE RStrip(_)
RStrip(b) ==
    IF b # <<>> /\ b[Len(b)] \in Whitespace
    THEN RStrip(SubSeq(b, 1, Len(b) - 1)) ELSE b

Strip(b) ==
    RStrip(LStrip(b))

\* bytes.startswith(prefix)
StartsWith(b, prefix) ==
    Len(b) >= Len(prefix) /\ SubSeq(b, 1, Len(prefix)) = prefix

\* The positions of b at which sep occurs, as bytes.split(sep) finds them:
\* left to right, without overlap, searching on from position `from`.
RECURSIVE Occurrences(_, _, _)
Occurrences(b, sep, from) ==
    IF from + Len(sep) - 1 > Len(b) THEN <<>>
    ELSE IF SubSeq(b, from, from + Len(sep) - 1) = sep
         THEN <<from>> \o Occurrences(b, sep, from + Len(sep))
         ELSE Occurrences(b, sep, from + 1)

\* bytes.split(sep): the pieces of b between the occurrences of sep.
Split(b, sep) ==
    LET occ == Occurrences(b, sep, 1)
        start(k) == IF k = 1 THEN 1 ELSE occ[k - 1] + Len(sep)
        stop(k)  == IF k = Len(occ) + 1 THEN Len(b) ELSE occ[k] - 1
    IN  [k \in 1..(Len(occ) + 1) |-> SubSeq(b, start(k), stop(k))]

\* The UTF-8 encoding of one character.
EncodeChar(c) ==
    IF c = "U+00E9" THEN <<"0xC3", "0xA9">> ELSE <<c>>

\* str.encode('utf-8')
RECURSIVE Utf8Encode(_)
Utf8Encode(text) ==
    IF text = <<>> THEN <<>>
    ELSE EncodeChar(Head(text)) \o Utf8Encode(Tail(text))

\* The bytes that are no ASCII byte.
HighBytes ==
    {"0xC3", "0xA9", "0xFF"}

\* bytes.decode('utf-8'): the text, or UnicodeDecodeError (a ValueError) when
\* a byte of a multi-byte sequence is missing or stands alone.
Utf8Decode(b) ==
    LET lead(k)  == b[k] = "0xC3" /\ k < Len(b) /\ b[k + 1] = "0xA9"
        trail(k) == b[k] = "0xA9" /\ k > 1 /\ b[k - 1] = "0xC3"
        chars    == [k \in 1..Len(b) |-> IF lead(k) THEN "U+00E9" ELSE b[k]]
        kept(c)  == c # "0xA9"
    IN  IF \A k \in 1..Len(b) : b[k] \in HighBytes => lead(k) \/ trail(k)
        THEN [ok |-> TRUE, text |-> SelectSeq(chars, kept)]
        ELSE [ok |-> FALSE, text |-> <<>>]

(***************************************************************************)
(* The JSON codec (`json`: orjson when it can be imported, else the        *)
(* standard library's json), on the values of the model.                   *)
(***************************************************************************)

IsInt(v)  == "int" \in DOMAIN v
IsLit(v)  == "lit" \in DOMAIN v
IsStr(v)  == "str" \in DOMAIN v
IsArr(v)  == "arr" \in DOMAIN v
IsObj(v)  == "obj" \in DOMAIN v

Null ==
    [lit |-> "null"]

\* Whether json.dumps accepts the value (TypeError otherwise).
RECURSIVE Serializable(_)
Serializable(v) ==
    IF IsInt(v) \/ IsLit(v) \/ IsStr(v) THEN TRUE
    ELSE IF IsArr(v) THEN \A k \in 1..Len(v.arr) : Serializable(v.arr[k])
    ELSE IF IsObj(v) THEN \A k \in 1..Len(v.obj) : Serializable(v.obj[k][2])
    ELSE FALSE

\* One character of a JSON string as json.dumps writes it: the standard
\* library escapes a non-ASCII character (ensure_ascii), orjson writes it
\* as it is.
DumpChar(c, ascii) ==
    IF c = "\"" THEN <<"\\", "\"">>
    ELSE IF c = "\\" THEN <<"\\", "\\">>
    ELSE IF c = "U+00E9" /\ ascii THEN <<"\\", "u", "0", "0", "e", "9">>
    ELSE <<c>>

RECURSIVE DumpChars(_, _)
DumpChars(text, ascii) ==
    IF text = <<>> THEN <<>>
    ELSE DumpChar(Head(text), ascii) \o DumpChars(Tail(text), ascii)

DumpString(text, ascii) ==
    <<"\"">> \o DumpChars(text, ascii) \o <<"\"">>

\* The text of a serializable value, with the separators (',', ':') that
\* __init__ sets (and orjson always uses).
RECURSIVE DumpValue(_, _)
DumpValue(v, ascii) ==
    LET RECURSIVE Items(_, _)
        Items(xs, k) ==
            IF k > Len(xs) THEN <<>>
            ELSE (IF k > 1 THEN <<",">> ELSE <<>>)
                 \o DumpValue(xs[k], ascii) \o Items(xs, k + 1)
        RECURSIVE Members(_, _)
        Members(ms, k) ==
            IF k > Len(ms) THEN <<>>
            ELSE (IF k > 1 THEN <<",">> ELSE <<>>)
                 \o DumpString(ms[k][1], ascii) \o <<":">>
                 \o DumpValue(ms[k][2], ascii) \o Members(ms, k + 1)
    IN  IF IsInt(v)
        THEN (IF v.int < 0 THEN <<"-">> \o Decimal(0 - v.int) ELSE Decimal(v.int))
        ELSE IF IsLit(v) THEN <<"n", "u", "l", "l">>
        ELSE IF IsStr(v) THEN DumpString(v.str, ascii)
        ELSE IF IsArr(v) THEN <<"[">> \o Items(v.arr, 1) \o <<"]">>
        ELSE <<"{">> \o Members(v.obj, 1) \o <<"}">>

\* json.dumps(message, **self._json_dumps_args): orjson gives bytes, the
\* standard library gives str; TypeError for a value that is not serializable.
Dumps(message, orjson) ==
    IF ~Serializable(message) THEN [exc |-> "TypeError", type |-> "none", data |-> <<>>]
    ELSE IF orjson
         THEN [exc |-> "", type |-> "bytes",
               data |-> Utf8Encode(DumpValue(message, FALSE))]
         ELSE [exc |-> "", type |-> "str", data |-> DumpValue(message, TRUE)]

\* The parser's result when the text is no JSON.
ParseError ==
    [ok |-> FALSE, val |-> Null, next |-> 0]

RECURSIVE SkipWs(_, _)
SkipWs(s, i) ==
    IF i <= Len(s) /\ s[i] \in Whitespace THEN SkipWs(s, i + 1) ELSE i

\* The end of the run of digits that starts at i.
RECURSIVE DigitsEnd(_, _)
DigitsEnd(s, i) ==
    IF i <= Len(s) /\ s[i] \in DigitSet THEN DigitsEnd(s, i + 1) ELSE i

\* A JSON number: an optional '-', then "0" or digits that do not start with 0.
ParseNumber(s, i) ==
    LET neg == i <= Len(s) /\ s[i] = "-"
        d   == IF neg THEN i + 1 ELSE i
        e   == DigitsEnd(s, d)
    IN  IF e = d \/ (s[d] = "0" /\ e > d + 1) THEN ParseError
        ELSE [ok |-> TRUE,
              val |-> [int |-> IF neg THEN 0 - DigitsValue(SubSeq(s, d, e - 1))
                               ELSE DigitsValue(SubSeq(s, d, e - 1))],
              next |-> e]

\* The characters of a JSON string from i on, up to its closing quote; of
\* the escapes, the ones DumpChar writes.
RECURSIVE ParseChars(_, _, _)
ParseChars(s, i, acc) ==
    IF i > Len(s) THEN ParseError
    ELSE IF s[i] = "\"" THEN [ok |-> TRUE, val |-> [str |-> acc], next |-> i + 1]
    ELSE IF s[i] = "\\"
         THEN IF i + 1 <= Len(s) /\ s[i + 1] \in {"\"", "\\"}
              THEN ParseChars(s, i + 2, Append(acc, s[i + 1]))
              ELSE IF i + 5 <= Len(s)
                      /\ SubSeq(s, i + 1, i + 5) = <<"u", "0", "0", "e", "9">>
                   THEN ParseChars(s, i + 6, Append(acc, "U+00E9"))
                   ELSE ParseError
    ELSE IF s[i] \in {"\n", "\r", "\t"} THEN ParseError
    ELSE ParseChars(s, i + 1, Append(acc, s[i]))

\* One JSON value that starts at i (no whitespace before it).
RECURSIVE ParseValue(_, _)
ParseValue(s, i) ==
    LET RECURSIVE Elements(_, _)
        \* after '[' or ',': a value, then ',' or ']'
        Elements(j, acc) ==
            LET r == ParseValue(s, SkipWs(s, j))
                k == SkipWs(s, r.next)
            IN  IF ~r.ok \/ k > Len(s) THEN ParseError
                ELSE IF s[k] = "]"
                     THEN [ok |-> TRUE, val |-> [arr |-> Append(acc, r.val)],
                           next |-> k + 1]
                ELSE IF s[k] = "," THEN Elements(k + 1, Append(acc, r.val))
                ELSE ParseError
        RECURSIVE Members(_, _)
        \* after '{' or ',': "key" ':' value, then ',' or '}'
        Members(j, acc) ==
            LET kq == SkipWs(s, j)
                key == IF kq <= Len(s) /\ s[kq] = "\""
                       THEN ParseChars(s, kq + 1, <<>>) ELSE ParseError
                c == SkipWs(s, key.next)
                r == IF key.ok /\ c <= Len(s) /\ s[c] = ":"
                     THEN ParseValue(s, SkipWs(s, c + 1)) ELSE ParseError
                k == SkipWs(s, r.next)
            IN  IF ~r.ok \/ k > Len(s) THEN ParseError
                ELSE IF s[k] = "}"
                     THEN [ok |-> TRUE,
                           val |-> [obj |-> Append(acc, <<key.val.str, r.val>>)],
                           next |-> k + 1]
                ELSE IF s[k] = "," THEN Members(k + 1, Append(acc, <<key.val.str, r.val>>))
                ELSE ParseError
    IN  IF i > Len(s) THEN ParseError
        ELSE IF s[i] = "\"" THEN ParseChars(s, i + 1, <<>>)
        ELSE IF s[i] = "[" THEN
            (IF SkipWs(s, i + 1) <= Len(s) /\ s[SkipWs(s, i + 1)] = "]"
             THEN [ok |-> TRUE, val |-> [arr |-> <<>>], next |-> SkipWs(s, i + 1) + 1]
             ELSE Elements(i + 1, <<>>))
        ELSE IF s[i] = "{" THEN
            (IF SkipWs(s, i + 1) <= Len(s) /\ s[SkipWs(s, i + 1)] = "}"
             THEN [ok |-> TRUE, val |-> [obj |-> <<>>], next |-> SkipWs(s, i + 1) + 1]
             ELSE Members(i + 1, <<>>))
        ELSE IF i + 3 <= Len(s) /\ SubSeq(s, i, i + 3) = <<"n", "u", "l", "l">>
             THEN [ok |-> TRUE, val |-> Null, next |-> i + 4]
        ELSE ParseNumber(s, i)

\* json.loads(text): the value of a text that is one JSON value with
\* whitespace around it, or JSONDecodeError (a ValueError).
Loads(text) ==
    LET r == ParseValue(text, SkipWs(text, 1))
    IN  IF r.ok /\ SkipWs(text, r.next) = Len(text) + 1
        THEN [ok |-> TRUE, val |-> r.val]
        ELSE [ok |-> FALSE, val |-> Null]

(***************************************************************************)
(* The byte streams the Reader and the Writer wrap (io.BytesIO, a socket   *)
(* file, sys.stdin.buffer ...).  A stream is a record: its bytes, the read *)
(* position `pos`, and `closed`.                                           *)
(***************************************************************************)

NewStream(bytes) ==
    [bytes |-> bytes, pos |-> 1, closed |-> FALSE]

\* The index of the first "\n" of bytes at or after i, or 0.
NewlineAt(bytes, i) ==
    LET at == {k \in i..Len(bytes) : bytes[k] = "\n"}
    IN  IF at = {} THEN 0 ELSE CHOOSE k \in at : \A j \in at : k <= j

\* rfile.readline(): the bytes up to and including the next "\n", or up to
\* the end of the stream; empty at the end of the stream.
ReadLine(f) ==
    LET nl   == NewlineAt(f.bytes, f.pos)
        last == IF nl = 0 THEN Len(f.bytes) ELSE nl
    IN  [line |-> SubSeq(f.bytes, f.pos, last), pos |-> last + 1]

\* The body is read as a line: the bytes up to and including the next "\n".
ReadBodyLine(f, length) ==
    LET r == ReadLine(f)
    IN  [data |-> r.line, pos |-> r.pos]

\* rfile.read(n): n bytes, or the bytes left when there are fewer; all the
\* bytes left when n is None (length.isNone) or negative.
Read(f, length) ==
    LET left == Len(f.bytes) - f.pos + 1
        n    == IF length.isNone \/ length.n < 0 \/ length.n > left
                THEN left ELSE length.n
    IN  [data |-> SubSeq(f.bytes, f.pos, f.pos + n - 1), pos |-> f.pos + n]

\* wfile.write(b) on an open stream
StreamWrite(f, b) ==
    [f EXCEPT !.bytes = @ \o b]

\* file.close()
StreamClose(f) ==
    [f EXCEPT !.closed = TRUE]

(***************************************************************************)
(* JsonRpcStreamReader: the pure part.                                     *)
(***************************************************************************)

\* _content_length(line): the integer of a line b'Content-Length: <int>',
\* None (isNone) for any other line, ValueError (exc) when the line has the
\* prefix and what follows is no integer, or when the unpacking of the split
\* in two fails (the line holds the prefix more than once).
ContentLength(line) ==
    IF StartsWith(line, CONTENT_LENGTH)
    THEN LET parts == Split(line, CONTENT_LENGTH)
             value == ParseInt(Strip(parts[2]))
         IN  IF Len(parts) # 2 \/ ~value.ok
             THEN [exc |-> TRUE, isNone |-> FALSE, n |-> 0]
             ELSE [exc |-> FALSE, isNone |-> FALSE, n |-> value.val]
    ELSE [exc |-> FALSE, isNone |-> TRUE, n |-> 0]

\* No header line after the first is consumed.
ConsumeNoHeaders(f, line, pos) ==
    [line |-> line, pos |-> pos]

\* "while line and line.strip(): line = self._rfile.readline()": the last
\* line read (blank, or empty at the end of the stream) and the position
\* after it.
RECURSIVE ConsumeHeaders(_, _, _)
ConsumeHeaders(f, line, pos) ==
    IF line # <<>> /\ Strip(line) # <<>>
    THEN LET r == ReadLine([f EXCEPT !.pos = pos])
         IN  ConsumeHeaders(f, r.line, r.pos)
    ELSE [line |-> line, pos |-> pos]

\* The length is looked for in the second header line when the first does
\* not give it.
ReadMessageSecondLine(f) ==
    LET first  == ReadLine(f)
        second == ReadLine([f EXCEPT !.pos = first.pos])
        length == IF ContentLength(first.line).isNone /\ Strip(first.line) # <<>>
                  THEN ContentLength(second.line)
                  ELSE ContentLength(first.line)
        blank  == ConsumeHeaders(f, first.line, first.pos)
        body   == Read([f EXCEPT !.pos = blank.pos], length)
        result(kind, data, pos) ==
            [kind |-> kind, data |-> data, pos |-> pos,
             isNone |-> kind = "bytes" /\ length.isNone,
             n |-> IF kind = "bytes" THEN length.n ELSE 0]
    IN  IF first.line = <<>> THEN result("None", <<>>, first.pos)
        ELSE IF length.exc THEN result("ValueError", <<>>, first.pos)
        ELSE IF blank.line = <<>> THEN result("None", <<>>, blank.pos)
        ELSE result("bytes", body.data, body.pos)

\* _read_message() on an open stream: kind "bytes" with the body, "None" at
\* the end of the stream, or "ValueError" from _content_length; and the
\* position the stream is left at.
ReadMessage(f) ==
    LET first  == ReadLine(f)
        length == ContentLength(first.line)
        blank  == ConsumeHeaders(f, first.line, first.pos)
        body   == Read([f EXCEPT !.pos = blank.pos], length)
        result(kind, data, pos) ==
            [kind |-> kind, data |-> data, pos |-> pos,
             isNone |-> kind = "bytes" /\ length.isNone,
             n |-> IF kind = "bytes" THEN length.n ELSE 0]
    IN  IF first.line = <<>> THEN result("None", <<>>, first.pos)
        ELSE IF length.exc THEN result("ValueError", <<>>, first.pos)
        ELSE IF blank.line = <<>> THEN result("None", <<>>, blank.pos)
        ELSE result("bytes", body.data, body.pos)

\* The body decoded as ASCII: UnicodeDecodeError for any other byte.
DecodeAscii(request_bytes) ==
    IF \E k \in 1..Len(request_bytes) : request_bytes[k] \in HighBytes
    THEN [ok |-> FALSE, val |-> Null]
    ELSE Loads(request_bytes)

\* json.loads(request_str.decode('utf-8')): the message, or ValueError
\* (UnicodeDecodeError, JSONDecodeError).
Decode(request_bytes) ==
    LET text == Utf8Decode(request_bytes)
    IN  IF text.ok THEN Loads(text.text) ELSE [ok |-> FALSE, val |-> Null]

(***************************************************************************)
(* JsonRpcStreamWriter: the pure part.                                     *)
(***************************************************************************)

\* "body if isinstance(body, bytes) else body.encode('utf-8')"
BodyBytes(body) ==
    IF body.type = "bytes" THEN body.data ELSE Utf8Encode(body.data)

\* The body's length in characters, not in bytes.
CharacterCount(body_bytes) ==
    Len(Utf8Decode(body_bytes).text)

\* len(body_bytes)
BodyLength(body_bytes) ==
    Len(body_bytes)

\* The frame is ended by a line terminator after the body.
FormatResponseTrailingNewline(length, body_bytes) ==
    CONTENT_LENGTH \o Decimal(length) \o CRLF
        \o CONTENT_TYPE \o CRLF \o CRLF \o body_bytes \o CRLF

\* The response of lines 112-116.
FormatResponse(length, body_bytes) ==
    CONTENT_LENGTH \o Decimal(length) \o CRLF
        \o CONTENT_TYPE \o CRLF \o CRLF \o body_bytes

\* Lines 107-116: the frame of a message, or the exception of json.dumps.
Response(message, orjson) ==
    LET body == Dumps(message, orjson)
    IN  IF body.exc # "" THEN [exc |-> body.exc, bytes |-> <<>>]
        ELSE [exc |-> "",
              bytes |-> FormatResponse(BodyLength(BodyBytes(body)), BodyBytes(body))]

\* "except Exception": the exceptions the handler of write catches.
ExceptionClasses ==
    {"TypeError", "ValueError", "OSError"}

\* Only the failures of the stream.
CaughtIOOnly(exc) ==
    exc = "OSError"

Caught(exc) ==
    exc \in ExceptionClasses

(***************************************************************************)
(* Bounds and the inputs of the model.                                     *)
(***************************************************************************)

\* The threads that call the Writer.
NumThreads == 2
\* The calls of write and close that are made in all.
MaxCalls == 3
\* The chunks an input stream of the Reader is made of.
MaxChunks == 2

Threads ==
    1..NumThreads

ObjA ==
    [obj |-> << << <<"a">>, [int |-> 1] >> >>]
ArrE ==
    [arr |-> <<[str |-> <<"U+00E9">>], Null>>]
Int12 ==
    [int |-> 12]
NotSerializable ==
    [pyobj |-> "set"]

\* The messages a caller passes to write: {"a":1}, ["\u00e9",null] and an
\* object json.dumps raises TypeError for.
Messages ==
    {ObjA, ArrE, NotSerializable}

VARIABLES
    orjson,          \* 'orjson' could be imported (line 9)
    wfile,           \* the Writer's stream, self._wfile
    wfile_lock,      \* self._wfile_lock: the thread that holds it, 0 when free
    pc,              \* pc[t]: where thread t is in its call of write or close
    call,            \* call[t]: the call thread t is in, and its argument
    response,        \* response[t]: the frame thread t has built (line 112)
    slot,            \* slot[t]: the entry of log of thread t's current call
    log,             \* the calls in the order they took the lock, with their ends
    ncalls,          \* the calls made so far
    rfile,           \* the Reader's stream, self._rfile
    rpc,             \* where listen is
    request_str,     \* listen's local variable
    pending,         \* the exception of this iteration's _read_message, if any
    message_consumer,\* how the consumer passed to listen ends
    consumed,        \* the messages the consumer was called with, in order
    bodies,          \* the number of bodies _read_message has returned
    content_length,  \* the argument of the latest self._rfile.read call
    outcome,         \* how listen ended: "" running, "returned", or an exception
    input            \* the chunks the Reader's stream was made of

wvars == <<orjson, wfile, wfile_lock, pc, call, response, slot, log, ncalls>>
rvars == <<rfile, rpc, request_str, pending, message_consumer, consumed, bodies,
           content_length, outcome, input>>
vars == <<orjson, wfile, wfile_lock, pc, call, response, slot, log, ncalls,
          rfile, rpc, request_str, pending, message_consumer, consumed, bodies,
          content_length, outcome, input>>

\* request_str before its first assignment.
Unbound ==
    [kind |-> "unbound", data |-> <<>>]

NoCall ==
    [op |-> "none", message |-> Null]

\* content_length before the first self._rfile.read(content_length).
NoRead ==
    [isNone |-> FALSE, n |-> 0, made |-> FALSE]

Init ==
    /\ orjson \in BOOLEAN
    /\ wfile = NewStream(<<>>)
    /\ wfile_lock = 0
    /\ pc = [t \in Threads |-> "idle"]
    /\ call = [t \in Threads |-> NoCall]
    /\ response = [t \in Threads |-> <<>>]
    /\ slot = [t \in Threads |-> 0]
    /\ log = <<>>
    /\ ncalls = 0
    /\ rfile = NewStream(<<>>)
    /\ rpc = "new"
    /\ request_str = Unbound
    /\ pending = ""
    /\ message_consumer = "returns"
    /\ consumed = <<>>
    /\ bodies = 0
    /\ content_length = NoRead
    /\ outcome = ""
    /\ input = [from |-> "none", chunks |-> <<>>]

(***************************************************************************)
(* JsonRpcStreamWriter.write and close, one action per step of a thread.   *)
(* The calls of the Writer are made before listen is called on the bytes   *)
(* written: the two classes share no state.                                *)
(*                                                                         *)
(* log[k] is the k-th call to take the lock: its op and its message,       *)
(* the bytes it appended to the stream, and its end: "running"; "noop" (a  *)
(* write that found the stream closed); "flushed" (a write that wrote and  *)
(* flushed); "dropped" (a write whose exception was caught and logged);    *)
(* "closed" (a close); or "raised" (an exception left the call).           *)
(***************************************************************************)

\* A caller calls write(message).
WriteCall(t, message) ==
    /\ rpc = "new" /\ pc[t] = "idle" /\ ncalls < MaxCalls
    /\ pc' = [pc EXCEPT ![t] = "write_lock"]
    /\ call' = [call EXCEPT ![t] = [op |-> "write", message |-> message]]
    /\ ncalls' = ncalls + 1
    /\ UNCHANGED <<orjson, wfile, wfile_lock, response, slot, log>>
    /\ UNCHANGED rvars

\* A caller calls close().
CloseCall(t) ==
    /\ rpc = "new" /\ pc[t] = "idle" /\ ncalls < MaxCalls
    /\ pc' = [pc EXCEPT ![t] = "close_lock"]
    /\ call' = [call EXCEPT ![t] = [op |-> "close", message |-> Null]]
    /\ ncalls' = ncalls + 1
    /\ UNCHANGED <<orjson, wfile, wfile_lock, response, slot, log>>
    /\ UNCHANGED rvars

\* The lock taken without waiting for it to be free.
LockIgnored(lock) ==
    TRUE

\* "with self._wfile_lock:" of write (line 103) can be entered.
WriteLockFree(lock) ==
    lock = 0

\* "with self._wfile_lock:" of close (line 99) can be entered.
CloseLockFree(lock) ==
    lock = 0

\* The thread takes the lock (blocking until it is free).
Acquire(t) ==
    /\ \/ pc[t] = "write_lock" /\ WriteLockFree(wfile_lock)
       \/ pc[t] = "close_lock" /\ CloseLockFree(wfile_lock)
    /\ wfile_lock' = t
    /\ pc' = [pc EXCEPT ![t] = IF call[t].op = "write" THEN "write_check"
                               ELSE "close_stream"]
    /\ log' = Append(log, [op |-> call[t].op, message |-> call[t].message,
                           end |-> "running", appended |-> <<>>])
    /\ slot' = [slot EXCEPT ![t] = Len(log) + 1]
    /\ UNCHANGED <<orjson, wfile, call, response, ncalls>>
    /\ UNCHANGED rvars

\* The call of thread t ends: the with statement releases the lock on every
\* way out of its block.
Leave(t, end) ==
    /\ wfile_lock' = 0
    /\ pc' = [pc EXCEPT ![t] = "idle"]
    /\ call' = [call EXCEPT ![t] = NoCall]
    /\ response' = [response EXCEPT ![t] = <<>>]
    /\ slot' = [slot EXCEPT ![t] = 0]
    /\ log' = [log EXCEPT ![slot[t]].end = end]

\* The call ends on an exception and the lock stays held.
HandleKeepsLock(t, exc) ==
    /\ wfile_lock' = wfile_lock
    /\ pc' = [pc EXCEPT ![t] = "idle"]
    /\ call' = [call EXCEPT ![t] = NoCall]
    /\ response' = [response EXCEPT ![t] = <<>>]
    /\ slot' = [slot EXCEPT ![t] = 0]
    /\ log' = [log EXCEPT ![slot[t]].end = "dropped"]

\* "except Exception: log.exception(...)": a caught exception is logged and
\* write returns; any other leaves write.
Handle(t, exc) ==
    Leave(t, IF Caught(exc) THEN "dropped" ELSE "raised")

\* The check that is always negative.
NeverClosed(f) ==
    FALSE

\* "if self._wfile.closed" (line 104)
WriteSeesClosed(f) ==
    f.closed

\* Lines 104-105: write returns at once when the stream is closed.
WriteCheck(t) ==
    /\ pc[t] = "write_check"
    /\ IF WriteSeesClosed(wfile)
       THEN Leave(t, "noop")
       ELSE /\ pc' = [pc EXCEPT ![t] = "write_dumps"]
            /\ UNCHANGED <<wfile_lock, call, response, slot, log>>
    /\ UNCHANGED <<orjson, wfile, ncalls>>
    /\ UNCHANGED rvars

\* Lines 107-116: the message is serialized and the frame built.
WriteDumps(t) ==
    /\ pc[t] = "write_dumps"
    /\ LET r == Response(call[t].message, orjson)
       IN  IF r.exc # ""
           THEN Handle(t, r.exc)
           ELSE /\ response' = [response EXCEPT ![t] = r.bytes]
                /\ pc' = [pc EXCEPT ![t] = "write_stream"]
                /\ UNCHANGED <<wfile_lock, call, slot, log>>
    /\ UNCHANGED <<orjson, wfile, ncalls>>
    /\ UNCHANGED rvars

\* Line 118: self._wfile.write(response).  A closed stream raises
\* ValueError; an open one takes the bytes, or fails with OSError and takes
\* none.
WriteStream(t) ==
    /\ pc[t] = "write_stream"
    /\ \/ /\ wfile.closed
          /\ Handle(t, "ValueError")
          /\ UNCHANGED wfile
       \/ /\ ~wfile.closed
          /\ wfile' = StreamWrite(wfile, response[t])
          /\ log' = [log EXCEPT ![slot[t]].appended =
                         SubSeq(wfile'.bytes, Len(wfile.bytes) + 1, Len(wfile'.bytes))]
          /\ pc' = [pc EXCEPT ![t] = "write_flush"]
          /\ UNCHANGED <<wfile_lock, call, response, slot>>
       \/ /\ ~wfile.closed
          /\ Handle(t, "OSError")
          /\ UNCHANGED wfile
    /\ UNCHANGED <<orjson, ncalls>>
    /\ UNCHANGED rvars

\* Line 119: self._wfile.flush(), and the return of write.
WriteFlush(t) ==
    /\ pc[t] = "write_flush"
    /\ \/ /\ wfile.closed
          /\ Handle(t, "ValueError")
       \/ /\ ~wfile.closed
          /\ Leave(t, "flushed")
       \/ /\ ~wfile.closed
          /\ Handle(t, "OSError")
    /\ UNCHANGED <<orjson, wfile, ncalls>>
    /\ UNCHANGED rvars

\* Line 100: self._wfile.close(), and the return of close.
CloseStream(t) ==
    /\ pc[t] = "close_stream"
    /\ wfile' = StreamClose(wfile)
    /\ Leave(t, "closed")
    /\ UNCHANGED <<orjson, ncalls>>
    /\ UNCHANGED rvars

(***************************************************************************)
(* The input streams of the Reader: the bytes a Writer wrote, or a         *)
(* sequence of chunks, each a frame or a malformed frame.                  *)
(***************************************************************************)

\* A message whose body holds a header line's text and, between its items,
\* a blank line: ["Content-Length: 9",\r\n\r\n1]
HeaderText ==
    CONTENT_LENGTH \o <<"9">>

TrickyValue ==
    [arr |-> <<[str |-> HeaderText], [int |-> 1]>>]

TrickyBody ==
    <<"[", "\"">> \o HeaderText \o <<"\"", ",", "\r", "\n", "\r", "\n", "1", "]">>

ChunkBody(c, oj) ==
    IF c.kind = "badjson" THEN <<"{">>
    ELSE IF c.kind = "tricky" THEN TrickyBody
    ELSE IF c.kind = "badutf8" THEN <<"0xC3">>
    ELSE BodyBytes(Dumps(c.value, oj))

\* What the frame's Content-Length line advertises beyond the body's length.
Excess == 3

ChunkBytes(c, oj) ==
    LET body   == ChunkBody(c, oj)
        length == CONTENT_LENGTH \o Decimal(Len(body)) \o CRLF
        type   == CONTENT_TYPE \o CRLF
    IN  CASE c.kind \in {"frame", "badjson", "badutf8", "tricky"} ->
                length \o type \o CRLF \o body
          [] c.kind = "badlength" ->
                CONTENT_LENGTH \o <<"x">> \o CRLF \o type \o CRLF \o body
          [] c.kind = "nolength" ->
                type \o CRLF \o body
          [] c.kind = "lengthsecond" ->
                type \o length \o CRLF \o body
          [] c.kind = "truncheader" ->
                length \o CONTENT_TYPE
          [] c.kind = "shortbody" ->
                CONTENT_LENGTH \o Decimal(Len(body) + Excess) \o CRLF
                    \o type \o CRLF \o body

Chunk(kind, value) ==
    [kind |-> kind, value |-> value]

Chunks ==
    {Chunk("frame", v) : v \in {ObjA, ArrE, Int12}}
    \cup {Chunk(k, v) : k \in {"badlength", "nolength", "shortbody"},
                        v \in {ObjA, Int12}}
    \cup {Chunk(k, ObjA) : k \in {"lengthsecond", "truncheader", "badjson",
                                  "badutf8"}}
    \cup {Chunk("tricky", TrickyValue)}

RECURSIVE SeqsUpTo(_, _)
SeqsUpTo(S, n) ==
    IF n = 0 THEN {<<>>}
    ELSE LET shorter == SeqsUpTo(S, n - 1)
         IN  shorter \cup {Append(q, x) : q \in shorter, x \in S}

Inputs ==
    SeqsUpTo(Chunks, MaxChunks)

RECURSIVE InputBytes(_, _)
InputBytes(chunks, oj) ==
    IF chunks = <<>> THEN <<>>
    ELSE ChunkBytes(Head(chunks), oj) \o InputBytes(Tail(chunks), oj)

\* How a consumer passed to listen ends each of its calls: it returns, or
\* raises the exception named.
Consumers ==
    {"returns", "ValueError", "KeyError"}

(***************************************************************************)
(* JsonRpcStreamReader: __init__, close and listen, one action per step.   *)
(***************************************************************************)

\* JsonRpcStreamReader(rfile) over a stream made of chunks (lines 17-18).
ReaderInit(chunks) ==
    /\ rpc = "new" /\ ncalls = 0
    /\ rfile' = NewStream(InputBytes(chunks, orjson))
    /\ input' = [from |-> "chunks", chunks |-> chunks]
    /\ rpc' = "ready"
    /\ UNCHANGED <<request_str, pending, message_consumer, consumed, bodies, content_length, outcome>>
    /\ UNCHANGED wvars

\* JsonRpcStreamReader(rfile) over the bytes the Writer's calls have written.
ReaderInitWritten ==
    /\ rpc = "new" /\ ncalls > 0 /\ \A t \in Threads : pc[t] = "idle"
    /\ rfile' = NewStream(wfile.bytes)
    /\ input' = [from |-> "writer", chunks |-> <<>>]
    /\ rpc' = "ready"
    /\ UNCHANGED <<request_str, pending, message_consumer, consumed, bodies, content_length, outcome>>
    /\ UNCHANGED wvars

\* Reader.close() (lines 20-21), called by another thread.
ReaderClose ==
    /\ rpc \notin {"new", "done"} /\ ~rfile.closed
    /\ rfile' = StreamClose(rfile)
    /\ UNCHANGED <<rpc, request_str, pending, message_consumer, consumed, bodies, content_length,
                   outcome, input>>
    /\ UNCHANGED wvars

\* listen(message_consumer) is called.
Listen(consumer) ==
    /\ rpc = "ready"
    /\ rpc' = "loop"
    /\ message_consumer' = consumer
    /\ UNCHANGED <<rfile, request_str, pending, consumed, bodies, content_length, outcome, input>>
    /\ UNCHANGED wvars

\* listen ends: it returns, or the exception named leaves it.
ListenEnds(how) ==
    /\ rpc' = "done"
    /\ outcome' = how

\* Line 29: while not self._rfile.closed
LoopTest ==
    /\ rpc = "loop"
    /\ IF rfile.closed
       THEN ListenEnds("returned")
       ELSE rpc' = "read" /\ UNCHANGED outcome
    /\ UNCHANGED <<rfile, request_str, pending, message_consumer, consumed, bodies, content_length,
                   input>>
    /\ UNCHANGED wvars

\* Line 31: request_str = self._read_message().  A read of a closed stream
\* raises ValueError, as _content_length does; request_str is assigned only
\* when _read_message returns.
ReadStep ==
    /\ rpc = "read"
    /\ IF rfile.closed
       THEN /\ pending' = "ValueError" /\ rpc' = "except"
            /\ UNCHANGED <<rfile, request_str, bodies, content_length>>
       ELSE LET r == ReadMessage(rfile)
            IN  /\ rfile' = [rfile EXCEPT !.pos = r.pos]
                /\ IF r.kind = "ValueError"
                   THEN /\ pending' = "ValueError" /\ rpc' = "except"
                        /\ UNCHANGED <<request_str, bodies, content_length>>
                   ELSE /\ request_str' = [kind |-> r.kind, data |-> r.data]
                        /\ bodies' = IF r.kind = "bytes" THEN bodies + 1 ELSE bodies
                        /\ content_length' =
                               IF r.kind = "bytes"
                               THEN [isNone |-> r.isNone, n |-> r.n, made |-> TRUE]
                               ELSE content_length
                        /\ rpc' = "test"
                        /\ UNCHANGED pending
    /\ UNCHANGED <<message_consumer, consumed, outcome, input>>
    /\ UNCHANGED wvars

\* Lines 32-35: except ValueError: return if the stream is closed, else log
\* and go on with the loop body.
ExceptStep ==
    /\ rpc = "except"
    /\ pending' = ""
    /\ IF rfile.closed
       THEN ListenEnds("returned")
       ELSE rpc' = "test" /\ UNCHANGED outcome
    /\ UNCHANGED <<rfile, request_str, message_consumer, consumed, bodies, content_length, input>>
    /\ UNCHANGED wvars

\* At the end of the stream the loop continues instead of ending.
TestStepNoBreak ==
    /\ rpc = "test"
    /\ CASE request_str.kind = "unbound" -> ListenEnds("UnboundLocalError")
         [] request_str.kind = "None" -> rpc' = "loop" /\ UNCHANGED outcome
         [] OTHER -> rpc' = "consume" /\ UNCHANGED outcome
    /\ UNCHANGED <<rfile, request_str, pending, message_consumer, consumed, bodies,
                   content_length, input>>
    /\ UNCHANGED wvars

\* The body read is set aside and the loop goes on to the next read, the
\* consumer not having been called.
TestStepDefers ==
    /\ rpc = "test"
    /\ CASE request_str.kind = "unbound" -> ListenEnds("UnboundLocalError")
         [] request_str.kind = "None" -> ListenEnds("returned")
         [] OTHER -> rpc' = "loop" /\ UNCHANGED outcome
    /\ UNCHANGED <<rfile, request_str, pending, message_consumer, consumed, bodies,
                   content_length, input>>
    /\ UNCHANGED wvars

\* Lines 37-38: "if request_str is None: break".  Reading request_str before
\* its first assignment raises UnboundLocalError.
TestStep ==
    /\ rpc = "test"
    /\ CASE request_str.kind = "unbound" -> ListenEnds("UnboundLocalError")
         [] request_str.kind = "None" -> ListenEnds("returned")
         [] OTHER -> rpc' = "consume" /\ UNCHANGED outcome
    /\ UNCHANGED <<rfile, request_str, pending, message_consumer, consumed, bodies, content_length,
                   input>>
    /\ UNCHANGED wvars

\* The exceptions "except ValueError" of line 42 catches.
ConsumeCatches(exc) ==
    exc = "ValueError"

\* A body that does not decode ends listen with the decoder's ValueError.
ConsumeStepFatal ==
    /\ rpc = "consume"
    /\ LET message == Decode(request_str.data)
       IN  IF ~message.ok
           THEN ListenEnds("ValueError") /\ UNCHANGED consumed
           ELSE /\ consumed' = Append(consumed, message.val)
                /\ IF message_consumer = "returns" \/ ConsumeCatches(message_consumer)
                   THEN rpc' = "loop" /\ UNCHANGED outcome
                   ELSE ListenEnds(message_consumer)
    /\ UNCHANGED <<rfile, request_str, pending, message_consumer, bodies, content_length, input>>
    /\ UNCHANGED wvars

\* Lines 40-44: the body is decoded and the consumer called with the
\* message; a ValueError of either is logged and the loop continues.
ConsumeStep ==
    /\ rpc = "consume"
    /\ LET message == Decode(request_str.data)
       IN  IF ~message.ok
           THEN rpc' = "loop" /\ UNCHANGED <<consumed, outcome>>
           ELSE /\ consumed' = Append(consumed, message.val)
                /\ IF message_consumer = "returns" \/ ConsumeCatches(message_consumer)
                   THEN rpc' = "loop" /\ UNCHANGED outcome
                   ELSE ListenEnds(message_consumer)
    /\ UNCHANGED <<rfile, request_str, pending, message_consumer, bodies, content_length, input>>
    /\ UNCHANGED wvars

\* The steps of a Reader once it is made.
ReaderSteps ==
    \/ ReaderClose
    \/ \E consumer \in Consumers : Listen(consumer)
    \/ LoopTest
    \/ ReadStep
    \/ ExceptStep
    \/ TestStep
    \/ ConsumeStep

WriterNext ==
    \E t \in Threads :
        \/ \E message \in Messages : WriteCall(t, message)
        \/ CloseCall(t)
        \/ Acquire(t)
        \/ WriteCheck(t)
        \/ WriteDumps(t)
        \/ WriteStream(t)
        \/ WriteFlush(t)
        \/ CloseStream(t)

\* A Reader over a stream of chunks.
ReaderNext ==
    \/ rpc = "new" /\ \E chunks \in Inputs : ReaderInit(chunks)
    \/ ReaderSteps

\* A Writer, then a Reader over the bytes it wrote.
Next ==
    \/ WriterNext
    \/ ReaderInitWritten
    \/ ReaderSteps

\* The Writer alone, called by its threads.
WSpec ==
    Init /\ [][WriterNext]_vars

\* The Reader alone, over every input stream.
RSpec ==
    Init /\ [][ReaderNext]_vars

\* The thread that called listen goes on running: listen is a blocking call
\* of a thread of its own, and a read of a finite stream returns. This is
\* weak fairness of each step of listen; for the read and for the call of
\* the consumer it is written out, the step being enabled exactly when rpc
\* stands at it (the step is total under that guard and moves rpc).
ListenFair ==
    /\ WF_vars(LoopTest)
    /\ WF_vars(ExceptStep)
    /\ WF_vars(TestStep)
    /\ ([]<>(rpc # "read") \/ []<><<ReadStep>>_vars)
    /\ ([]<>(rpc # "consume") \/ []<><<ConsumeStep>>_vars)

\* The Reader alone, over every input stream, the thread of listen running.
RLive ==
    Init /\ [][ReaderNext]_vars /\ ListenFair

\* The Writer, and then the Reader over the Writer's bytes.
Spec ==
    Init /\ [][Next]_vars

(***************************************************************************)
(* The properties.                                                         *)
(***************************************************************************)

\* The frame of section 4.2 for a message: the two header lines, the blank
\* line, and the body, the length being the number of bytes of the body.
ExpectedBody(message) ==
    Utf8Encode(DumpValue(message, ~orjson))

ExpectedFrame(message) ==
    CONTENT_LENGTH \o Decimal(Len(ExpectedBody(message))) \o CRLF
        \o CONTENT_TYPE \o CRLF \o CRLF \o ExpectedBody(message)

\* listen has ended, on a stream that nobody closed, with a consumer that
\* returns.
ListenDone ==
    rpc = "done" /\ message_consumer = "returns" /\ ~rfile.closed

\* The Writer's calls were one write, which wrote and flushed, and listen
\* has run over the bytes written.
OneWriteRead ==
    /\ ListenDone /\ input.from = "writer"
    /\ Len(log) = 1 /\ log[1].op = "write" /\ log[1].end = "flushed"

\* C1: the bytes of one write(v), fed to listen, make the consumer be called
\* exactly once, with v, and listen then returns.
C1_RoundTrip ==
    OneWriteRead => consumed = <<log[1].message>> /\ outcome = "returned"

C1_Witness ==
    OneWriteRead /\ orjson /\ consumed = <<ArrE>>

\* C2: a write that succeeds appends to the stream exactly the frame of its
\* message, whose Content-Length is the number of bytes of the body.
C2_ExactFrame ==
    \A k \in 1..Len(log) :
        log[k].op = "write" /\ log[k].end = "flushed"
            => log[k].appended = ExpectedFrame(log[k].message)

\* A body of 11 bytes and 10 characters: ["é",null] as orjson writes it.
C2_Witness ==
    \E k \in 1..Len(log) :
        /\ log[k].end = "flushed" /\ log[k].message = ArrE
        /\ log[k].appended =
               CONTENT_LENGTH \o <<"1", "1">> \o CRLF \o CONTENT_TYPE \o CRLF \o CRLF
               \o <<"[", "\"", "0xC3", "0xA9", "\"", ",", "n", "u", "l", "l", "]">>

\* The frames of the calls of log that have written, in log's order.
RECURSIVE FramesOf(_)
FramesOf(calls) ==
    IF calls = <<>> THEN <<>>
    ELSE FramesOf(SubSeq(calls, 1, Len(calls) - 1))
         \o (IF calls[Len(calls)].appended # <<>>
             THEN ExpectedFrame(calls[Len(calls)].message) ELSE <<>>)

\* C3: under every interleaving of the writing threads the stream holds
\* complete frames only, one per write that has written, none torn, in the
\* order in which the threads took the lock.
C3_ConcurrentWriters ==
    /\ wfile.bytes = FramesOf(log)
    /\ \A k \in 1..Len(log) : log[k].end = "flushed" => log[k].appended # <<>>

\* One thread has written its frame and holds the lock, another waits for
\* the lock with another message.
C3_Witness ==
    \E t, u \in Threads :
        /\ pc[t] = "write_flush" /\ call[t].message = ArrE
        /\ pc[u] = "write_lock" /\ call[u].message = ObjA
        /\ wfile.bytes = ExpectedFrame(ArrE)

\* The input is a frame with a corrupted Content-Length, then a frame.
CorruptedThenFrame ==
    /\ input.from = "chunks" /\ Len(input.chunks) = 2
    /\ input.chunks[1].kind = "badlength" /\ input.chunks[2].kind = "frame"

\* C4: on a frame with a corrupted Content-Length followed by a well-formed
\* frame, listen calls the consumer exactly once, with the value of the
\* well-formed frame, and returns only after it.
C4_MalformedRecovery ==
    ListenDone /\ CorruptedThenFrame
        => consumed = <<input.chunks[2].value>> /\ outcome = "returned"

\* C5: with a consumer that does not raise and a stream that does not fail,
\* listen ends only by returning, whatever the input.
C5_ListenNeverRaises ==
    ListenDone /\ input.from = "chunks" => outcome = "returned"

\* The input ends with a frame whose body is shorter than its Content-Length.
TruncatedBody ==
    /\ input.from = "chunks" /\ Len(input.chunks) = 1
    /\ input.chunks[1].kind = "shortbody"

\* C6: when the body is shorter than the Content-Length advertised, listen
\* returns without calling the consumer for the partial frame.
C6_TruncatedBody ==
    ListenDone /\ TruncatedBody => consumed = <<>> /\ outcome = "returned"

\* A close() has returned.
CloseReturned ==
    \E k \in 1..Len(log) : log[k].op = "close" /\ log[k].end = "closed"

\* C7: once close() has returned, a write returns at once, without raising
\* and without an exception logged, and the bytes of the stream do not
\* change any more.
C7_ClosedNoop ==
    /\ [](\A i, j \in 1..Len(log) :
            i < j /\ log[i].op = "close" /\ log[i].end = "closed"
                  /\ log[j].op = "write"
                => log[j].end \in {"running", "noop"} /\ log[j].appended = <<>>)
    /\ [][CloseReturned => wfile'.bytes = wfile.bytes]_vars

C7_Witness ==
    \E i, j \in 1..Len(log) :
        /\ i < j /\ log[i].op = "close" /\ log[i].end = "closed"
        /\ log[j].op = "write" /\ log[j].end = "noop"

\* C8: no exception leaves write, whatever the message and whether or not
\* the stream's write or flush fails.
C8_WriteNeverRaises ==
    \A k \in 1..Len(log) : log[k].end # "raised"

\* A message that cannot be serialized was dropped, and so was one after a
\* failure of the stream.
C8_Witness ==
    /\ Len(log) = 2
    /\ log[1].message = NotSerializable /\ log[1].end = "dropped"
    /\ log[2].message = ObjA /\ log[2].end = "dropped"

\* C9: an exception of the consumer, of whatever type, leaves listen, which
\* reads no further frame.
C9_ConsumerFailurePropagates ==
    message_consumer # "returns" /\ consumed # <<>>
        => rpc = "done" /\ outcome = message_consumer /\ Len(consumed) = 1

\* C10: the stream is never closed between a write's check of closed and
\* the end of its flush.
C10_CloseNotDuringWrite ==
    \A t \in Threads :
        pc[t] \in {"write_dumps", "write_stream", "write_flush"} => ~wfile.closed

\* A close waits for the lock while a write is about to flush.
C10_Witness ==
    \E t, u \in Threads : pc[t] = "write_flush" /\ pc[u] = "close_lock"

\* A thread is inside the with block of write or close.
InsideLock(t) ==
    pc[t] \notin {"idle", "write_lock", "close_lock"}

\* C11: when a call of write or close has ended, however it ended, the lock
\* is free: the lock is held only by a thread inside its with block, and a
\* write that follows a failed one on the open stream takes the lock and
\* appends its complete frame.
C11_LockReleased ==
    /\ wfile_lock # 0 => InsideLock(wfile_lock)
    /\ \A i, j \in 1..Len(log) :
           i < j /\ log[i].end = "dropped" /\ log[j].end = "flushed"
               => log[j].appended = ExpectedFrame(log[j].message)

\* A write failed (the message cannot be serialized), one failed on the
\* stream, and the write after them appended its frame.
C11_Witness ==
    /\ Len(log) = 3 /\ wfile_lock = 0 /\ ~wfile.closed
    /\ log[1].message = NotSerializable /\ log[1].end = "dropped"
    /\ log[2].message = ObjA /\ log[2].end = "dropped" /\ log[2].appended = <<>>
    /\ log[3].message = ArrE /\ log[3].end = "flushed"
    /\ wfile.bytes = ExpectedFrame(ArrE)

\* The input is made of chunks, all of the kinds given.
AllOfKind(kinds) ==
    /\ input.from = "chunks"
    /\ \A k \in 1..Len(input.chunks) : input.chunks[k].kind \in kinds

\* The position of the stream right after its first k chunks.
FrameEnd(k) ==
    Len(InputBytes(SubSeq(input.chunks, 1, k), orjson)) + 1

\* The values of the first k chunks.
ValuesOf(k) ==
    [i \in 1..k |-> input.chunks[i].value]

\* C12: on well-formed frames the consumer is called in the order of the
\* frames, and the call for a frame is made before any byte of the next
\* frame is read: when listen is about to read, every body read so far has
\* been passed to the consumer, and the stream stands right after the last
\* frame read.
C12_SynchronousInOrder ==
    AllOfKind({"frame", "tricky"}) =>
        /\ Len(consumed) <= Len(input.chunks)
        /\ consumed = ValuesOf(Len(consumed))
        /\ bodies \in {Len(consumed), Len(consumed) + 1}
        /\ rpc \in {"loop", "read"} => bodies = Len(consumed)
        /\ rfile.pos = FrameEnd(bodies)

\* Two frames were delivered in their order, and listen returned.
C12_Witness ==
    /\ AllOfKind({"frame"}) /\ rpc = "done" /\ outcome = "returned"
    /\ consumed = <<ArrE, ObjA>>

\* C13: on every finite input listen ends; and when the end of the stream
\* is met where a frame's first line is expected or inside a header block
\* (_read_message returns None), listen returns, without raising and without
\* another call of the consumer.
C13_Termination ==
    /\ (rpc = "loop") ~> (rpc = "done")
    /\ [](request_str.kind = "None"
            => rpc \in {"test", "done"} /\ (rpc = "done" => outcome = "returned"))
    /\ [][request_str.kind = "None" => consumed' = consumed]_vars

\* The stream ended inside the header block of its second frame, and listen
\* returned after the first frame's message.
C13_Witness ==
    /\ input.from = "chunks" /\ Len(input.chunks) = 2
    /\ input.chunks[2].kind = "truncheader"
    /\ rpc = "done" /\ outcome = "returned" /\ request_str.kind = "None"
    /\ consumed = <<ObjA>>

\* C14: a listen whose stream was closed, before the call or by another
\* thread during it, has ended by returning, its consumer not raising.
C14_CloseEndsListen ==
    rpc = "done" /\ message_consumer = "returns" /\ rfile.closed /\ input.from = "chunks"
        => outcome = "returned"

\* The input is a frame whose body is not valid UTF-8 or not valid JSON,
\* its Content-Length being right, and then a well-formed frame.
BadBodyThenFrame ==
    /\ input.from = "chunks" /\ Len(input.chunks) = 2
    /\ input.chunks[1].kind \in {"badjson", "badutf8"}
    /\ input.chunks[2].kind = "frame"

\* C15: on a frame whose body does not decode followed by a well-formed
\* frame, the consumer is never called for the first, and a listen that
\* ends on the stream left open has called it once, with the value of the
\* second, and returned.
C15_DecodeRecovery ==
    BadBodyThenFrame =>
        /\ consumed \in {<<>>, <<input.chunks[2].value>>}
        /\ consumed # <<>> => bodies = 2
        /\ ListenDone => consumed = <<input.chunks[2].value>> /\ outcome = "returned"

\* A body that is not UTF-8 was dropped, and the frame after it delivered.
C15_Witness ==
    /\ BadBodyThenFrame /\ input.chunks[1].kind = "badutf8"
    /\ ListenDone /\ outcome = "returned" /\ consumed = <<ArrE>>

\* The kinds of frame whose first line is a Content-Length that is the
\* length of the body that follows the blank line.
LengthFirst ==
    {"frame", "tricky", "badjson", "badutf8"}

\* C16: on frames whose first line is 'Content-Length: N', a body read is
\* the N bytes after the frame's blank line, whatever they are, N being the
\* length the read was made with, and the stream is left right after them,
\* where the next frame's first line is read.
C16_ExactBody ==
    AllOfKind(LengthFirst) =>
        /\ bodies \in 0..Len(input.chunks)
        /\ rfile.pos = FrameEnd(bodies)
        /\ rpc \in {"test", "consume"} /\ request_str.kind = "bytes" =>
              /\ bodies >= 1
              /\ request_str.data = ChunkBody(input.chunks[bodies], orjson)
              /\ content_length =
                     [isNone |-> FALSE, n |-> Len(request_str.data), made |-> TRUE]

\* A body that holds a header line's text and a blank line was read whole,
\* and the frame after it was read from its first byte.
C16_Witness ==
    /\ AllOfKind(LengthFirst) /\ Len(input.chunks) = 2
    /\ input.chunks[1].kind = "tricky" /\ input.chunks[2].kind = "frame"
    /\ rpc = "consume" /\ bodies = 2 /\ consumed = <<TrickyValue>>
    /\ request_str.data = ChunkBody(input.chunks[2], orjson)

\* The first line of the input is not a Content-Length line: the frame has
\* none, or has it as its second header line.
FirstLineOther ==
    /\ input.from = "chunks" /\ Len(input.chunks) >= 1
    /\ input.chunks[1].kind \in {"nolength", "lengthsecond"}

\* The bytes of the input after the blank line of its first frame.
AfterFirstBlank ==
    LET bytes == InputBytes(input.chunks, orjson)
        body  == ChunkBody(input.chunks[1], orjson)
        start == Len(ChunkBytes(input.chunks[1], orjson)) - Len(body) + 1
    IN  SubSeq(bytes, start, Len(bytes))

\* C17: when the first line of a frame is not a Content-Length line, the
\* body read is made with the length None, whatever the later header lines
\* are, and it takes every byte left in the stream.
C17_FirstLineOnly ==
    FirstLineOther =>
        /\ bodies <= 1
        /\ ~content_length.made => bodies = 0
        /\ bodies = 1 =>
              /\ content_length = [isNone |-> TRUE, n |-> 0, made |-> TRUE]
              /\ request_str = [kind |-> "bytes", data |-> AfterFirstBlank]
                     \/ request_str.kind = "None"

\* The frame's second header line was its Content-Length, and the body read
\* was made with the length None.
C17_Witness ==
    /\ FirstLineOther /\ input.chunks[1].kind = "lengthsecond"
    /\ rpc = "consume" /\ bodies = 1 /\ content_length.isNone
    /\ request_str.data = AfterFirstBlank

\* The input is a frame without a Content-Length line, then a well-formed
\* frame.
MissingThenFrame ==
    /\ input.from = "chunks" /\ Len(input.chunks) = 2
    /\ input.chunks[1].kind = "nolength" /\ input.chunks[2].kind = "frame"

\* C18: on a frame without Content-Length followed by a well-formed frame,
\* listen calls the consumer exactly once, with the value of the well-formed
\* frame, and returns.
C18_MissingLengthRecovery ==
    ListenDone /\ MissingThenFrame
        => consumed = <<input.chunks[2].value>> /\ outcome = "returned"

\* C19: the consumer has been called at most once for each body that
\* _read_message returned.
C19_NoDuplicateDelivery ==
    Len(consumed) <= bodies

\* The messages of the writes that have written, in the order of log.
WrittenValues ==
    LET written == SelectSeq(log, LAMBDA c : c.op = "write" /\ c.appended # <<>>)
    IN  [k \in 1..Len(written) |-> written[k].message]

\* C20: listen over the bytes that a sequence of writes has written calls
\* the consumer once per message written, in the order written, and then
\* returns.
C20_SequenceRoundTrip ==
    ListenDone /\ input.from = "writer"
        => consumed = WrittenValues /\ outcome = "returned"

\* Three writes were read back, a non-ASCII message between two others.
C20_Witness ==
    /\ ListenDone /\ input.from = "writer" /\ outcome = "returned"
    /\ Len(log) = 3 /\ \A k \in 1..3 : log[k].end = "flushed"
    /\ consumed = <<ObjA, ArrE, ObjA>>

====
